---- MODULE Spec2Model ----
(***************************************************************************)
(* F1RaceTelemetry: the ingestion run of main.py / data_ingestion.py and   *)
(* the batch writer of database.py, as a state machine.                    *)
(*                                                                         *)
(* A raw JSON object is a function from field names to values; a field the *)
(* upstream left out or sent as null is a name missing from the function's *)
(* DOMAIN (pydantic treats the two alike: a required field fails, a field  *)
(* with default None is None).                                             *)
(* Timestamps and ObjectIds are natural numbers.                           *)
(***************************************************************************)
EXTENDS Integers, Sequences, FiniteSets, TLC

\* ---------------------------------------------------------------- bounds
\* config.BATCH_SIZE, scaled down from 5000 so that full batches and
\* remainders both occur within MaxLen records.
BATCH_SIZE == 2
\* longest payload a unit call of an ingester or of bulk_insert is fed
MaxLen == 3
\* longest payload an entity fetch returns during a whole run
RunLen == 1
\* most candidates the discovery fetch returns
MaxSessions == 2
\* most injected failures (non-200, transport error, storage error) per behaviour
MaxFaults == 1
\* most direct calls in the unit specification
MaxCalls == 2
\* longest string a gap field is given
MaxStr == 3
\* most drivers the drivers fetch of the car data ingester returns
MaxDrivers == 2
\* most telemetry records the upstream holds for a session
MaxTelemetry == 2

\* ------------------------------------------------------------- constants
\* the literal 3 of "Only show first 3 errors to avoid spam"
VerboseLimit == 3

VARIABLES
    pc,             \* position of main(): see Stages
    store,          \* the document store: collection name -> sequence of documents
    nextId,         \* next ObjectId the driver hands out
    sessionsUnique, \* the unique index on sessions.session_key exists
    dbHandle,       \* F1Database.db is set (the client object was built)
    client,         \* F1Database.client: "none", "open", "closed"
    dbUp,           \* the server answers this run's storage operations
    http,           \* TestDataIngestion.session: "none", "open", "closed"
    response,       \* the last upstream response: [status, body]
    latest_session, \* run_test_ingestion's latest_session (<<>> before discovery)
    counts,         \* ingest_session_data's drivers_count, laps_count, positions_count
    events,         \* this run's fetches and writer calls, in order
    summary,        \* the final summary lines emitted by ingest_session_data
    exit_code,      \* -1 while running, else the process exit status
    exc,            \* the exception propagating out of run_test_ingestion, or "none"
    faults,         \* failures injected so far
    upstream,       \* unit specification: the entity under test and what the API holds for it
    ucall           \* unit specification: the last direct call and its result

vars == <<pc, store, nextId, sessionsUnique, dbHandle, client, dbUp, http, response,
          latest_session, counts, events, summary, exit_code, exc, faults, upstream, ucall>>

Collections == {"sessions", "drivers", "laps", "positions", "intervals", "car_data"}

NoKey == ""

\* ------------------------------------------------------------- sequences
Range(s) == {s[i] : i \in 1..Len(s)}

SeqsUpTo(S, n) == UNION {[1..k -> S] : k \in 0..n}

RECURSIVE SelectIdx(_, _, _)
\* the indices i >= from of s with P[i], as the subsequence of s
SelectIdx(s, keep, from) ==
    IF from > Len(s) THEN <<>>
    ELSE (IF from \in keep THEN <<s[from]>> ELSE <<>>) \o SelectIdx(s, keep, from + 1)

Min(a, b) == IF a < b THEN a ELSE b

\* ---------------------------------------------------------- models.py
Entities == {"sessions", "drivers", "laps", "positions", "intervals", "car_data"}

\* ---- Interval.parse_gap_values and the Optional[Union[float, str]] fields
\* A value of a gap field is tagged: null, a JSON number ("int" with its value,
\* "float" with its value in units of 1 / Scale), a string (the sequence of its
\* characters) or "other" for an array or an object.
GapFields == {"gap_to_leader", "interval"}

Null == [tag |-> "null"]

\* the characters the strings under test are made of
Chars == {"1", "5", ".", "+", "L", " "}

Digits == {"1", "5"}

\* floats are kept to MaxStr decimal places
Scale == 10 ^ MaxStr

DigitVal(c) == IF c = "1" THEN 1 ELSE 5

RECURSIVE IntOf(_)
\* the number a sequence of digits spells, 0 for none
IntOf(ds) ==
    IF ds = <<>> THEN 0
    ELSE IntOf(SubSeq(ds, 1, Len(ds) - 1)) * 10 + DigitVal(ds[Len(ds)])

RECURSIVE Strip(_)
\* float() ignores the white space around its argument
Strip(str) ==
    IF str = <<>> THEN <<>>
    ELSE IF Head(str) = " " THEN Strip(Tail(str))
    ELSE IF str[Len(str)] = " " THEN Strip(SubSeq(str, 1, Len(str) - 1))
    ELSE str

\* the literal without its sign
Unsigned(str) == IF str # <<>> /\ Head(str) = "+" THEN Tail(str) ELSE str

\* float(str) returns: an optional sign, then digits with at most one point and
\* at least one digit
IsFloatLiteral(str) ==
    LET u == Unsigned(Strip(str))
    IN /\ \A i \in 1..Len(u) : u[i] \in Digits \cup {"."}
       /\ Cardinality({i \in 1..Len(u) : u[i] = "."}) <= 1
       /\ \E i \in 1..Len(u) : u[i] \in Digits

\* the value float(str) returns for such a literal, in units of 1 / Scale
FloatValue(str) ==
    LET u == Unsigned(Strip(str))
        points == {i \in 1..Len(u) : u[i] = "."}
        p == IF points = {} THEN Len(u) + 1 ELSE CHOOSE i \in points : TRUE
        whole == SubSeq(u, 1, p - 1)
        frac == SubSeq(u, p + 1, Len(u))
    IN IntOf(whole) * Scale + IntOf(frac) * (10 ^ (MaxStr - Len(frac)))

\* a validator that never tries the numeric parse of a string
ParseGapKeepsStrings(v) ==
    IF v.tag = "null" THEN Null
    ELSE IF v.tag = "str" THEN v
    ELSE IF v.tag = "int" THEN [tag |-> "float", v |-> v.v * Scale]
    ELSE v

\* parse_gap_values(cls, v), mode='before'
ParseGapValues(v) ==
    IF v.tag = "null" THEN Null
    ELSE IF v.tag = "str"
    THEN IF IsFloatLiteral(v.v) THEN [tag |-> "float", v |-> FloatValue(v.v)]
         ELSE v                                   \* ValueError: keep the string
    ELSE IF v.tag = "int" THEN [tag |-> "float", v |-> v.v * Scale]
    ELSE v                                        \* a float, or TypeError: return v

\* pydantic's validation of Optional[Union[float, str]] on what the validator
\* returned
UnionFloatStr(v) == v.tag \in {"null", "float", "str"}

\* the fields without a default of each model (those the claims read)
Required(entity) ==
    CASE entity = "sessions"  -> {"session_key", "session_name", "date_start", "date_end"}
      [] entity = "drivers"   -> {"session_key", "driver_number"}
      [] entity = "laps"      -> {"session_key", "driver_number", "lap_number"}
      [] entity = "positions" -> {"session_key", "driver_number", "date", "position"}
      [] entity = "intervals" -> {"session_key", "driver_number", "date"}
      [] entity = "car_data"  -> {"session_key", "driver_number", "date"}

\* the Optional[...] = None fields of each model (those the claims read)
Optional(entity) ==
    CASE entity = "intervals" -> {"gap_to_leader", "interval"}
      [] entity = "car_data"  -> {"speed"}
      [] entity = "laps"      -> {"lap_duration"}
      [] OTHER                -> {}

\* a validation that asks for the session key only
ValidatesSessionKeyOnly(entity, item) == "session_key" \in DOMAIN item

\* Model(**item) raises unless every required field is there
Validates(entity, item) == Required(entity) \subseteq DOMAIN item

\* Interval(**item) for a record that carries gap values: the validator runs on
\* each before the field's own validation
IntervalValidates(item) ==
    /\ Validates("intervals", item)
    /\ \A f \in GapFields \cap DOMAIN item : UnionFloatStr(ParseGapValues(item[f]))

\* Model(**item).model_dump(): the declared fields only, extra input ignored
ModelDump(entity, item) ==
    [f \in (Required(entity) \cup Optional(entity)) \cap DOMAIN item |-> item[f]]

\* Interval(**item).model_dump() for a record that carries gap values
IntervalDump(item) ==
    [f \in DOMAIN ModelDump("intervals", item) |->
        IF f \in GapFields THEN ParseGapValues(item[f]) ELSE item[f]]

\* the identity tuple of section 3 of the design, per collection
IdentityFields(entity) ==
    CASE entity = "sessions"  -> {"session_key"}
      [] entity = "drivers"   -> {"session_key", "driver_number"}
      [] entity = "laps"      -> {"session_key", "driver_number", "lap_number"}
      [] OTHER                -> {"session_key", "driver_number", "date"}

Identity(entity, doc) == [f \in IdentityFields(entity) \cap DOMAIN doc |-> doc[f]]

\* -------------------------------------------------------- the store
HasId(doc) == "_id" \in DOMAIN doc

StripId(doc) == [f \in DOMAIN doc \ {"_id"} |-> doc[f]]

WithId(doc, id) == [f \in DOMAIN doc \cup {"_id"} |-> IF f = "_id" THEN id ELSE doc[f]]

RECURSIVE AssignIds(_, _)
\* pymongo's insert_many gives every document without an _id a fresh ObjectId,
\* in place: the caller's list holds the ids afterwards.
AssignIds(documents, nid) ==
    IF documents = <<>> THEN [documents |-> <<>>, nextId |-> nid]
    ELSE LET d == Head(documents)
             first == IF HasId(d) THEN d ELSE WithId(d, nid)
             rest == AssignIds(Tail(documents), IF HasId(d) THEN nid ELSE nid + 1)
         IN [documents |-> <<first>> \o rest.documents, nextId |-> rest.nextId]

\* the unique indexes: _id everywhere, session_key on sessions (ensure_indexes)
DuplicateKey(stored, collection_name, unique, doc) ==
    \E i \in 1..Len(stored) :
        \/ stored[i]["_id"] = doc["_id"]
        \/ /\ collection_name = "sessions"
           /\ unique
           /\ "session_key" \in DOMAIN doc
           /\ "session_key" \in DOMAIN stored[i]
           /\ stored[i]["session_key"] = doc["session_key"]

RECURSIVE InsertUnordered(_, _, _, _)
\* insert_many(ordered=False): every document that breaks no unique index is stored
InsertUnordered(stored, collection_name, unique, documents) ==
    IF documents = <<>> THEN stored
    ELSE LET d == Head(documents)
         IN InsertUnordered(
                IF DuplicateKey(stored, collection_name, unique, d)
                THEN stored ELSE Append(stored, d),
                collection_name, unique, Tail(documents))

\* $set of doc on the stored document
SetFields(old, doc) ==
    [f \in DOMAIN old \cup DOMAIN doc |-> IF f \in DOMAIN doc THEN doc[f] ELSE old[f]]

\* an upsert whose filter never matches
MatchesNothing(stored, key, doc) == {}

Matches(stored, key, doc) ==
    {i \in 1..Len(stored) : key \in DOMAIN stored[i] /\ stored[i][key] = doc[key]}

RECURSIVE UpsertAll(_, _, _, _)
\* bulk_write of one UpdateOne({key: doc[key]}, {"$set": doc}, upsert=True) per document
UpsertAll(r, key, documents, k) ==
    IF k > Len(documents) THEN r
    ELSE LET doc == documents[k]
             m == Matches(r.stored, key, doc)
         IN IF m = {}
            THEN UpsertAll([stored |-> Append(r.stored, WithId(doc, r.nextId)),
                            nextId |-> r.nextId + 1,
                            upserted_count |-> r.upserted_count + 1,
                            modified_count |-> r.modified_count],
                           key, documents, k + 1)
            ELSE LET i == CHOOSE j \in m : \A l \in m : j <= l
                     new == SetFields(r.stored[i], doc)
                 IN UpsertAll([stored |-> [r.stored EXCEPT ![i] = new],
                               nextId |-> r.nextId,
                               upserted_count |-> r.upserted_count,
                               modified_count |-> r.modified_count
                                   + (IF new = r.stored[i] THEN 0 ELSE 1)],
                              key, documents, k + 1)

\* ------------------------------------------------- database.py: bulk_insert
\* db: [store, nextId, sessionsUnique, dbHandle]; outcome: "ok" or "error" (a
\* storage error that is no duplicate-key error).  A result carries the returned
\* count, whether the call raised, the store afterwards, the caller's documents
\* afterwards (insert_many writes the _id into them), the logged duplicate count,
\* whether an error was logged and whether a storage operation was issued.
BulkResult(db, documents) ==
    [ret |-> 0, raised |-> FALSE, store |-> db.store, nextId |-> db.nextId,
     documents |-> documents, duplicates |-> 0, error_logged |-> FALSE, io |-> FALSE]

\* a try block that leaves out the documents lacking the upsert key and
\* writes the others
BulkInsertTrySkippingUnkeyed(db, collection_name, documents, upsert_key, outcome) ==
    LET base == BulkResult(db, documents)
        raise == [base EXCEPT !.raised = TRUE]
        keyed == SelectIdx(documents,
                           {k \in 1..Len(documents) : upsert_key \in DOMAIN documents[k]}, 1)
    IN IF ~db.dbHandle THEN raise
       ELSE IF upsert_key # NoKey
       THEN IF outcome = "error" THEN [raise EXCEPT !.io = TRUE]
            ELSE LET r == UpsertAll([stored |-> db.store[collection_name],
                                     nextId |-> db.nextId,
                                     upserted_count |-> 0, modified_count |-> 0],
                                    upsert_key, keyed, 1)
                 IN [base EXCEPT !.ret = r.upserted_count + r.modified_count,
                                 !.store = [db.store EXCEPT ![collection_name] = r.stored],
                                 !.nextId = r.nextId,
                                 !.io = TRUE]
       ELSE LET a == AssignIds(documents, db.nextId)
            IN IF outcome = "error"
               THEN [raise EXCEPT !.documents = a.documents, !.nextId = a.nextId,
                                  !.io = TRUE]
               ELSE LET after == InsertUnordered(db.store[collection_name],
                                                 collection_name, db.sessionsUnique,
                                                 a.documents)
                        inserted_count == Len(after) - Len(db.store[collection_name])
                    IN [base EXCEPT !.ret = inserted_count,
                                    !.store = [db.store EXCEPT ![collection_name] = after],
                                    !.nextId = a.nextId,
                                    !.documents = a.documents,
                                    !.duplicates = Len(documents) - inserted_count,
                                    !.io = TRUE]

\* the body of the try block, lines 107-142: raised is an exception leaving it
BulkInsertTry(db, collection_name, documents, upsert_key, outcome) ==
    LET base == BulkResult(db, documents)
        raise == [base EXCEPT !.raised = TRUE]
    IN IF ~db.dbHandle THEN raise                       \* None[collection_name]
       ELSE IF upsert_key # NoKey
       THEN IF \E k \in 1..Len(documents) : upsert_key \notin DOMAIN documents[k]
            THEN raise                                  \* KeyError: doc[upsert_key]
            ELSE IF outcome = "error" THEN [raise EXCEPT !.io = TRUE]
            ELSE LET r == UpsertAll([stored |-> db.store[collection_name],
                                     nextId |-> db.nextId,
                                     upserted_count |-> 0, modified_count |-> 0],
                                    upsert_key, documents, 1)
                 IN [base EXCEPT !.ret = r.upserted_count + r.modified_count,
                                 !.store = [db.store EXCEPT ![collection_name] = r.stored],
                                 !.nextId = r.nextId,
                                 !.io = TRUE]
       ELSE LET a == AssignIds(documents, db.nextId)
            IN IF outcome = "error"
               THEN \* no "duplicate key error" in the message: raise bulk_error
                    [raise EXCEPT !.documents = a.documents, !.nextId = a.nextId,
                                  !.io = TRUE]
               ELSE LET after == InsertUnordered(db.store[collection_name],
                                                 collection_name, db.sessionsUnique,
                                                 a.documents)
                        \* len(result.inserted_ids), or details["nInserted"] of the
                        \* duplicate-key BulkWriteError
                        inserted_count == Len(after) - Len(db.store[collection_name])
                    IN [base EXCEPT !.ret = inserted_count,
                                    !.store = [db.store EXCEPT ![collection_name] = after],
                                    !.nextId = a.nextId,
                                    !.documents = a.documents,
                                    !.duplicates = Len(documents) - inserted_count,
                                    !.io = TRUE]

\* a bulk_insert whose outer handler is missing: the exception leaves the call
BulkInsertNoCatch(db, collection_name, documents, upsert_key, outcome) ==
    IF documents = <<>> THEN BulkResult(db, documents)
    ELSE BulkInsertTry(db, collection_name, documents, upsert_key, outcome)

\* a bulk_insert that counts the batch size instead of what was inserted
BulkInsertCountsAll(db, collection_name, documents, upsert_key, outcome) ==
    LET b == BulkInsertTry(db, collection_name, documents, upsert_key, outcome)
    IN IF documents = <<>> THEN BulkResult(db, documents)
       ELSE IF b.raised
       THEN [b EXCEPT !.raised = FALSE, !.ret = 0, !.error_logged = TRUE]
       ELSE [b EXCEPT !.ret = Len(documents), !.duplicates = 0]

\* a bulk_insert without the early return for an empty list
BulkInsertNoEmptyCheck(db, collection_name, documents, upsert_key, outcome) ==
    LET b == BulkInsertTry(db, collection_name, documents, upsert_key, outcome)
    IN IF b.raised
       THEN [b EXCEPT !.raised = FALSE, !.ret = 0, !.error_logged = TRUE]
       ELSE b

\* bulk_insert: 'if not documents: return 0', then the try block and its handler
BulkInsert(db, collection_name, documents, upsert_key, outcome) ==
    IF documents = <<>> THEN BulkResult(db, documents)
    ELSE LET b == BulkInsertTry(db, collection_name, documents, upsert_key, outcome)
         IN IF b.raised
            THEN [b EXCEPT !.raised = FALSE, !.ret = 0, !.error_logged = TRUE]
            ELSE b

\* ------------------------------------------------- the upstream API
\* the i-th well-formed record the upstream returns for a session
GoodItem(entity, session_key, i) ==
    CASE entity = "drivers"   -> [session_key |-> session_key, driver_number |-> i]
      [] entity = "laps"      -> [session_key |-> session_key, driver_number |-> 1,
                                  lap_number |-> i]
      [] entity = "positions" -> [session_key |-> session_key, driver_number |-> 1,
                                  date |-> i, position |-> 1]
      [] OTHER                -> [session_key |-> session_key, driver_number |-> 1,
                                  date |-> i]

\* the required field a malformed record of the entity lacks
Dropped(entity) ==
    CASE entity = "drivers"   -> "driver_number"
      [] entity = "laps"      -> "lap_number"
      [] entity = "positions" -> "position"
      [] OTHER                -> "date"

BadItem(entity, session_key, i) ==
    LET g == GoodItem(entity, session_key, i)
    IN [f \in DOMAIN g \ {Dropped(entity)} |-> g[f]]

\* every response body of at most n records, each well-formed or malformed
Payloads(entity, session_key, n) ==
    UNION {{[i \in 1..k |-> IF i \in G THEN GoodItem(entity, session_key, i)
                                       ELSE BadItem(entity, session_key, i)]
            : G \in SUBSET (1..k)} : k \in 0..n}

\* a response: status 200, another status, or "transport" when the request raises
Statuses == {"200", "500", "transport"}

Response(status, body) == [status |-> status, body |-> IF status = "200" THEN body ELSE <<>>]

\* --------------------------------------------- data_ingestion.py: ingesters
\* A thread of control carries the database (store, nextId, sessionsUnique,
\* dbHandle, dbUp), the events so far, the number of storage outcomes consumed,
\* whether an exception is propagating and the validation messages logged.
StripIds(documents) == [k \in 1..Len(documents) |-> StripId(documents[k])]

FetchEvent(entity, session_key, resp) ==
    [kind |-> "fetch", collection |-> entity, session_key |-> session_key,
     status |-> resp.status]

\* the discovery fetch, with the number of candidates it returned
DiscoveryEvent(resp) ==
    [kind |-> "fetch", collection |-> "sessions", session_key |-> 0,
     status |-> resp.status, n |-> Len(resp.body)]

WriteEvent(collection_name, documents, upsert_key, ret) ==
    [kind |-> "write", collection |-> collection_name, documents |-> StripIds(documents),
     upsert_key |-> upsert_key, ret |-> ret]

\* await self.db.bulk_insert(collection_name, documents, upsert_key)
WriterCall(s, collection_name, documents, upsert_key, outs) ==
    LET outcome == IF ~s.dbUp THEN "error"
                   ELSE IF s.used < Len(outs) THEN outs[s.used + 1] ELSE "ok"
        r == BulkInsert(s, collection_name, documents, upsert_key, outcome)
    IN [s |-> [s EXCEPT !.store = r.store,
                        !.nextId = r.nextId,
                        !.events = Append(@, WriteEvent(collection_name, documents,
                                                        upsert_key, r.ret)),
                        !.used = @ + (IF r.io /\ s.dbUp THEN 1 ELSE 0),
                        !.raised = r.raised],
        ret |-> r.ret,
        documents |-> r.documents]

\* the records of data before the k-th that validated
ValidBefore(entity, data, k) ==
    Cardinality({j \in 1..(k - 1) : Validates(entity, data[j])})

\* the except branch of the per-item try: what a validation failure logs.  The
\* laps and intervals ingesters compare len(batch) with the limit, the car data
\* batch processor compares successful_count, positions always warns.
ValidationLog(entity, batch_len, successful_count) ==
    IF entity = "positions" THEN <<"warning">>
    ELSE LET n == IF entity = "car_data" THEN successful_count ELSE batch_len
         IN IF n < VerboseLimit THEN <<"warning">>
            ELSE IF n = VerboseLimit THEN <<"notice">>
            ELSE <<>>

RECURSIVE BatchLoopAborting(_, _, _, _, _, _)
\* a loop whose first validation failure ends it
BatchLoopAborting(s, entity, batch, data, k, outs) ==
    IF k > Len(data) THEN [s |-> s, batch |-> batch]
    ELSE IF ~Validates(entity, data[k])
    THEN [s |-> [s EXCEPT !.log = @ \o <<"warning">>], batch |-> batch]
    ELSE LET grown == Append(batch, ModelDump(entity, data[k]))
         IN IF Len(grown) >= BATCH_SIZE
            THEN LET w == WriterCall(s, entity, grown, NoKey, outs)
                 IN BatchLoopAborting(w.s, entity, <<>>, data, k + 1, outs)
            ELSE BatchLoopAborting(s, entity, grown, data, k + 1, outs)

RECURSIVE BatchLoop(_, _, _, _, _, _)
\* for item in data: validate, append the dump, flush when the batch is full.
\* The try block covers the flush, so an exception of the writer is swallowed
\* by the per-item handler before the batch is reset.
BatchLoop(s, entity, batch, data, k, outs) ==
    IF k > Len(data) THEN [s |-> s, batch |-> batch]
    ELSE IF ~Validates(entity, data[k])
    THEN BatchLoop([s EXCEPT !.log = @ \o ValidationLog(entity, Len(batch),
                                                        ValidBefore(entity, data, k))],
                   entity, batch, data, k + 1, outs)
    ELSE LET grown == Append(batch, ModelDump(entity, data[k]))
         IN IF Len(grown) >= BATCH_SIZE
            THEN LET w == WriterCall(s, entity, grown, NoKey, outs)
                 IN IF w.s.raised
                    THEN BatchLoop([w.s EXCEPT !.raised = FALSE], entity, w.documents,
                                   data, k + 1, outs)
                    ELSE BatchLoop(w.s, entity, <<>>, data, k + 1, outs)
            ELSE BatchLoop(s, entity, grown, data, k + 1, outs)

\* if batch: await self.db.bulk_insert(entity, batch)
FlushRest(l, entity, outs) ==
    IF l.batch = <<>> \/ l.s.raised THEN l
    ELSE LET w == WriterCall(l.s, entity, l.batch, NoKey, outs)
         IN [s |-> w.s, batch |-> w.documents]

\* len([item for item in data if self._validate_x_item(item)])
SuccessfulCount(entity, data) ==
    Cardinality({k \in 1..Len(data) : Validates(entity, data[k])})

ValidDumps(entity, data) ==
    LET keep == {k \in 1..Len(data) : Validates(entity, data[k])}
        kept == SelectIdx(data, keep, 1)
    IN [k \in 1..Len(kept) |-> ModelDump(entity, kept[k])]

Fetched(s, entity, session_key, resp) ==
    [s EXCEPT !.events = Append(@, FetchEvent(entity, session_key, resp)),
              !.raised = (resp.status = "transport")]

Returned(s, ret) == [s |-> s, ret |-> IF s.raised THEN 0 ELSE ret]

\* a drivers ingester that raises on a failed fetch
IngestDriversRaising(s0, session_key, resp, outs) ==
    LET s == Fetched(s0, "drivers", session_key, resp)
    IN IF resp.status = "200"
       THEN LET w == WriterCall(s, "drivers", ValidDumps("drivers", resp.body), NoKey, outs)
            IN Returned(w.s, w.ret)
       ELSE Returned([s EXCEPT !.raised = TRUE], 0)

\* a drivers ingester that returns how many records validated
IngestDriversCountsValid(s0, session_key, resp, outs) ==
    LET s == Fetched(s0, "drivers", session_key, resp)
    IN IF s.raised THEN Returned(s, 0)
       ELSE IF resp.status = "200"
       THEN LET w == WriterCall(s, "drivers", ValidDumps("drivers", resp.body), NoKey, outs)
            IN Returned(w.s, Len(ValidDumps("drivers", resp.body)))
       ELSE Returned(s, 0)

\* ingest_drivers: bulk_insert is called once, also with an empty list
IngestDrivers(s0, session_key, resp, outs) ==
    LET s == Fetched(s0, "drivers", session_key, resp)
    IN IF s.raised THEN Returned(s, 0)
       ELSE IF resp.status = "200"
       THEN LET w == WriterCall(s, "drivers", ValidDumps("drivers", resp.body), NoKey, outs)
            IN Returned(w.s, w.ret)
       ELSE Returned(s, 0)

\* a laps ingester that returns how many records the writer stored
IngestLapsCountsWritten(s0, session_key, resp, outs) ==
    LET s == Fetched(s0, "laps", session_key, resp)
    IN IF s.raised THEN Returned(s, 0)
       ELSE IF resp.status = "200"
       THEN LET l == BatchLoop(s, "laps", <<>>, resp.body, 1, outs)
                f1 == FlushRest(l, "laps", outs)
                f2 == FlushRest(f1, "laps", outs)
            IN Returned(f2.s, Len(f2.s.store["laps"]) - Len(s.store["laps"]))
       ELSE Returned(s, 0)

\* ingest_laps: the remainder is flushed twice; the returned count is recomputed
\* from the fetched data by _validate_lap_item
IngestLaps(s0, session_key, resp, outs) ==
    LET s == Fetched(s0, "laps", session_key, resp)
    IN IF s.raised THEN Returned(s, 0)
       ELSE IF resp.status = "200"
       THEN LET l == BatchLoop(s, "laps", <<>>, resp.body, 1, outs)
                f1 == FlushRest(l, "laps", outs)
                f2 == FlushRest(f1, "laps", outs)
            IN Returned(f2.s, SuccessfulCount("laps", resp.body))
       ELSE Returned(s, 0)

IngestPositions(s0, session_key, resp, outs) ==
    LET s == Fetched(s0, "positions", session_key, resp)
    IN IF s.raised THEN Returned(s, 0)
       ELSE IF resp.status = "200"
       THEN LET l == BatchLoop(s, "positions", <<>>, resp.body, 1, outs)
                f == FlushRest(l, "positions", outs)
            IN Returned(f.s, Len(resp.body))
       ELSE Returned(s, 0)

IngestIntervals(s0, session_key, resp, outs) ==
    LET s == Fetched(s0, "intervals", session_key, resp)
    IN IF s.raised THEN Returned(s, 0)
       ELSE IF resp.status = "200"
       THEN LET l == BatchLoop(s, "intervals", <<>>, resp.body, 1, outs)
                f1 == FlushRest(l, "intervals", outs)
                f2 == FlushRest(f1, "intervals", outs)
            IN Returned(f2.s, SuccessfulCount("intervals", resp.body))
       ELSE Returned(s, 0)

\* _process_car_data_batch(data): successful_count counts the records that
\* validated, whatever the writer made of them
ProcessCarDataBatch(s, data, outs) ==
    LET l == BatchLoop(s, "car_data", <<>>, data, 1, outs)
        f == FlushRest(l, "car_data", outs)
    IN Returned(f.s, SuccessfulCount("car_data", data))

\* ---- _ingest_car_data_by_drivers
\* speed_filters, each a conjunction of comparisons of the query string
SpeedFilters ==
    << <<[op |-> "=", n |-> 0]>>,
       <<[op |-> ">=", n |-> 1], [op |-> "<", n |-> 150]>>,
       <<[op |-> ">=", n |-> 150], [op |-> "<", n |-> 350]>>,
       <<[op |-> ">=", n |-> 350]>> >>

Holds(cond, speed) ==
    CASE cond.op = "="  -> speed = cond.n
      [] cond.op = ">=" -> speed >= cond.n
      [] cond.op = "<"  -> speed < cond.n

\* the upstream's answer to car_data?session_key=..&driver_number=..&<filter>:
\* a record whose speed is null satisfies no comparison
MatchesQuery(item, session_key, driver_number, filter) ==
    /\ item["session_key"] = session_key
    /\ item["driver_number"] = driver_number
    /\ "speed" \in DOMAIN item
    /\ \A i \in 1..Len(filter) : Holds(filter[i], item["speed"])

QueryResult(telemetry, session_key, driver_number, filter) ==
    SelectIdx(telemetry,
              {k \in 1..Len(telemetry) :
                  MatchesQuery(telemetry[k], session_key, driver_number, filter)}, 1)

CarFetchEvent(session_key, driver_number, f, status, records) ==
    [kind |-> "fetch", collection |-> "car_data", session_key |-> session_key,
     status |-> status, driver_number |-> driver_number, filter |-> f,
     records |-> records]

\* the status of the next fetch: statuses lists those of the range fetches
NextStatus(statuses, nfetch) ==
    IF nfetch < Len(statuses) THEN statuses[nfetch + 1] ELSE "200"

RECURSIVE CarLoop(_, _, _, _, _, _, _, _, _)
\* for driver in drivers_data: for speed_filter in speed_filters: fetch, process.
\* d and f are the driver and the filter reached, nfetch the range fetches made.
CarLoop(s, total, session_key, drivers_data, d, f, car, nfetch, outs) ==
    IF d > Len(drivers_data) THEN [s |-> s, ret |-> total]
    ELSE IF \/ "driver_number" \notin DOMAIN drivers_data[d]
            \/ drivers_data[d]["driver_number"] = 0
    THEN CarLoop(s, total, session_key, drivers_data, d + 1, 1, car, nfetch, outs)
    ELSE IF f > Len(SpeedFilters)
    THEN CarLoop(s, total, session_key, drivers_data, d + 1, 1, car, nfetch, outs)
    ELSE LET driver_number == drivers_data[d]["driver_number"]
             status == NextStatus(car.statuses, nfetch)
             driver_data == IF status = "200"
                            THEN QueryResult(car.telemetry, session_key, driver_number,
                                             SpeedFilters[f])
                            ELSE <<>>
             fetched == [s EXCEPT !.events =
                            Append(@, CarFetchEvent(session_key, driver_number, f,
                                                    status, driver_data)),
                                  !.raised = (status = "transport")]
         IN IF fetched.raised THEN [s |-> fetched, ret |-> 0]
            ELSE IF driver_data # <<>>
            THEN LET p == ProcessCarDataBatch(fetched, driver_data, outs)
                 IN CarLoop(p.s, total + p.ret, session_key, drivers_data, d, f + 1,
                            car, nfetch + 1, outs)
            ELSE CarLoop(fetched, total, session_key, drivers_data, d, f + 1,
                         car, nfetch + 1, outs)

\* _ingest_car_data_by_drivers: resp is the answer to the drivers fetch, car the
\* telemetry the upstream holds and the statuses of the range fetches
IngestCarDataByDrivers(s0, session_key, resp, car, outs) ==
    LET s == Fetched(s0, "drivers", session_key, resp)
    IN IF s.raised THEN Returned(s, 0)
       ELSE IF resp.status # "200" THEN Returned(s, 0)
       ELSE IF resp.body = <<>> THEN Returned(s, 0)
       ELSE CarLoop(s, 0, session_key, resp.body, 1, 1, car, 0, outs)

\* ------------------------------------------------- session discovery
GoodSession(k, d) ==
    [session_key |-> k, session_name |-> "Race", date_start |-> d, date_end |-> d]

\* a candidate the Session model rejects: date_end is missing
BadSession(k, d) == [session_key |-> k, session_name |-> "Race", date_start |-> d]

\* every discovery body of at most n candidates with distinct session keys
SessionLists(n) ==
    UNION {{[i \in 1..k |-> IF good[i] THEN GoodSession(i, date[i])
                                       ELSE BadSession(i, date[i])]
            : date \in [1..k -> 1..n], good \in [1..k -> BOOLEAN]} : k \in 0..n}

\* the first candidate, whatever its date
FirstSession(sessions) == sessions[1]

\* max(sessions, key=lambda x: x['date_start']): the first of the maximal ones
MaxByDateStart(sessions) ==
    LET i == CHOOSE j \in 1..Len(sessions) :
                 /\ \A l \in 1..Len(sessions) :
                        sessions[l]["date_start"] <= sessions[j]["date_start"]
                 /\ \A l \in 1..(j - 1) :
                        sessions[l]["date_start"] < sessions[j]["date_start"]
    IN sessions[i]

\* a discovery that returns nothing instead of raising
FetchLatestSessionNoRaise(resp) ==
    [raised |-> FALSE,
     latest_session |-> IF resp.status = "200" /\ resp.body # <<>>
                        THEN MaxByDateStart(resp.body) ELSE <<>>]

\* fetch_latest_session: the session found, or raised
FetchLatestSession(resp) ==
    IF resp.status = "200" /\ resp.body # <<>>
    THEN [raised |-> FALSE, latest_session |-> MaxByDateStart(resp.body)]
    ELSE [raised |-> TRUE, latest_session |-> <<>>]

\* ------------------------------------------------- the run: main.py
\* the methods class F1Database defines
F1DatabaseMethods == {"__init__", "connect", "disconnect", "ensure_indexes", "bulk_insert"}

NoResponse == [status |-> "none", body |-> <<>>]
NoCounts == [drivers |-> -1, laps |-> -1, positions |-> -1]
NoCall == [op |-> "none", n |-> 0, ops |-> <<>>]
NoUpstream == [entity |-> "none", body |-> <<>>]

Thread ==
    [store |-> store, nextId |-> nextId, sessionsUnique |-> sessionsUnique,
     dbHandle |-> dbHandle, dbUp |-> dbUp, events |-> events, used |-> 0,
     raised |-> FALSE, log |-> <<>>]

Errors(outs) == Cardinality({i \in 1..Len(outs) : outs[i] = "error"})

\* the storage outcomes of at most n operations within the failures left
Outcomes(n) ==
    {o \in [1..n -> {"ok", "error"}] : faults + Errors(o) <= MaxFaults}

\* the outcomes the thread did not consume are not failures
Consumed(s, outs) == \A i \in (s.used + 1)..Len(outs) : outs[i] = "ok"

StatusFault(status) == IF status = "200" THEN 0 ELSE 1

\* the writer calls one ingester can make on a body of at most n records
MaxWrites(n) == (n \div BATCH_SIZE) + 2

Init ==
    /\ pc = "start"
    /\ store = [c \in Collections |-> <<>>]
    /\ nextId = 1
    /\ sessionsUnique = FALSE
    /\ dbHandle = FALSE
    /\ client = "none"
    /\ dbUp = FALSE
    /\ http = "none"
    /\ response = NoResponse
    /\ latest_session = <<>>
    /\ counts = NoCounts
    /\ events = <<>>
    /\ summary = <<>>
    /\ exit_code = -1
    /\ exc = "none"
    /\ faults = 0
    /\ upstream = NoUpstream
    /\ ucall = NoCall

\* async with TestDataIngestion(): __init__ and __aenter__.  connect() swallows
\* its own failures and ensure_indexes() those of every collection; what still
\* makes __aenter__ raise after the client was built is a failing
\* aiohttp.ClientSession() or a cancellation delivered while it awaits
\* (session_built is then FALSE), and __aexit__ is not called for it.
Enter ==
    /\ pc = "start"
    /\ \E c \in {"ok", "ping_failed", "client_failed"}, session_built \in BOOLEAN :
        /\ faults + (IF c = "ok" THEN 0 ELSE 1) + (IF session_built THEN 0 ELSE 1)
              <= MaxFaults
        /\ faults' = faults + (IF c = "ok" THEN 0 ELSE 1)
                            + (IF session_built THEN 0 ELSE 1)
        /\ dbHandle' = (c # "client_failed")
        /\ client' = (IF c = "client_failed" THEN "none" ELSE "open")
        /\ dbUp' = (c = "ok")
        /\ sessionsUnique' = (sessionsUnique \/ c = "ok")
        /\ IF session_built
           THEN /\ http' = "open"
                /\ pc' = "discover"
                /\ UNCHANGED <<exc, exit_code>>
           ELSE /\ http' = "none"
                /\ exc' = "aenter"
                /\ exit_code' = 1
                /\ pc' = "done"
    /\ UNCHANGED <<store, nextId, response, latest_session, counts, events, summary,
                   upstream, ucall>>

\* latest_session = await ingestion.fetch_latest_session()
Discover ==
    /\ pc = "discover"
    /\ \E status \in Statuses, body \in SessionLists(MaxSessions) :
        LET resp == Response(status, body)
            f == FetchLatestSession(resp)
        IN /\ status # "200" => body = <<>>
           /\ faults + StatusFault(status) <= MaxFaults
           /\ faults' = faults + StatusFault(status)
           /\ response' = resp
           /\ events' = Append(events, DiscoveryEvent(resp))
           /\ IF f.raised
              THEN /\ exc' = "discovery"
                   /\ pc' = "aexit"
                   /\ UNCHANGED latest_session
              ELSE /\ latest_session' = f.latest_session
                   /\ pc' = "session"
                   /\ UNCHANGED exc
    /\ UNCHANGED <<store, nextId, sessionsUnique, dbHandle, client, dbUp, http, counts,
                   summary, exit_code, upstream, ucall>>

\* session = Session(**latest_session); bulk_insert("sessions", [dump], "session_key")
UpsertSession ==
    /\ pc = "session"
    /\ IF ~Validates("sessions", latest_session)
       THEN /\ exc' = "validation"
            /\ pc' = "aexit"
            /\ UNCHANGED <<store, nextId, events, faults>>
       ELSE \E outs \in Outcomes(1) :
            LET w == WriterCall(Thread, "sessions",
                                <<ModelDump("sessions", latest_session)>>,
                                "session_key", outs)
            IN /\ Consumed(w.s, outs)
               /\ faults' = faults + Errors(outs)
               /\ store' = w.s.store
               /\ nextId' = w.s.nextId
               /\ events' = w.s.events
               /\ IF w.s.raised THEN exc' = "writer" /\ pc' = "aexit"
                                ELSE pc' = "drivers" /\ UNCHANGED exc
    /\ UNCHANGED <<sessionsUnique, dbHandle, client, dbUp, http, response, latest_session,
                   counts, summary, exit_code, upstream, ucall>>

\* one awaited ingester of ingest_session_data and the step after it
Stage(at, next, ingest(_, _, _, _)) ==
    /\ pc = at
    /\ \E status \in Statuses,
          body \in Payloads(at, latest_session["session_key"], RunLen),
          outs \in Outcomes(MaxWrites(RunLen)) :
        LET resp == Response(status, body)
            r == ingest(Thread, latest_session["session_key"], resp, outs)
        IN /\ status # "200" => body = <<>>
           /\ faults + StatusFault(status) + Errors(outs) <= MaxFaults
           /\ Consumed(r.s, outs)
           /\ faults' = faults + StatusFault(status) + Errors(outs)
           /\ response' = resp
           /\ store' = r.s.store
           /\ nextId' = r.s.nextId
           /\ events' = r.s.events
           /\ IF r.s.raised
              THEN /\ exc' = "ingester"
                   /\ pc' = "aexit"
                   /\ UNCHANGED counts
              ELSE /\ counts' = [counts EXCEPT ![at] = r.ret]
                   /\ pc' = next
                   /\ UNCHANGED exc
    /\ UNCHANGED <<sessionsUnique, dbHandle, client, dbUp, http, latest_session, summary,
                   exit_code, upstream, ucall>>

\* laps and positions awaited the other way round
StageAfterSwapped(at) ==
    CASE at = "drivers"   -> "positions"
      [] at = "positions" -> "laps"
      [] at = "laps"      -> "summary"

\* the order of the awaits of ingest_session_data
StageAfter(at) ==
    CASE at = "drivers"   -> "laps"
      [] at = "laps"      -> "positions"
      [] at = "positions" -> "summary"

DriversStage == Stage("drivers", StageAfter("drivers"), IngestDrivers)

LapsStage == Stage("laps", StageAfter("laps"), IngestLaps)

PositionsStage == Stage("positions", StageAfter("positions"), IngestPositions)

\* live document counts per collection
CollectionStats == [c \in Collections |-> Len(store[c])]

\* the INGESTION SUMMARY lines, then stats = await self.db.get_collection_stats()
Summary ==
    /\ pc = "summary"
    /\ IF "get_collection_stats" \in F1DatabaseMethods
       THEN /\ summary' = <<counts, CollectionStats>>
            /\ UNCHANGED exc
       ELSE /\ summary' = <<counts>>
            /\ exc' = "attribute"
    /\ pc' = "aexit"
    /\ UNCHANGED <<store, nextId, sessionsUnique, dbHandle, client, dbUp, http, response,
                   latest_session, counts, events, exit_code, faults, upstream, ucall>>

\* except: raise; __aexit__; main()'s sys.exit(1) on an exception.  __aexit__
\* closes the HTTP session and then disconnects the database, with no
\* try/finally between the two: when session.close() raises, disconnect() is
\* not reached.
Exit ==
    /\ pc = "aexit"
    /\ \E closed \in BOOLEAN :
        /\ ~closed => faults < MaxFaults
        /\ faults' = faults + (IF closed THEN 0 ELSE 1)
        /\ http' = (IF closed THEN "closed" ELSE http)
        /\ client' = (IF closed /\ client = "open" THEN "closed" ELSE client)
        /\ exit_code' = IF exc = "none" /\ closed THEN 0 ELSE 1
    /\ dbUp' = FALSE
    /\ pc' = "done"
    /\ UNCHANGED <<store, nextId, sessionsUnique, dbHandle, response,
                   latest_session, counts, events, summary, exc, upstream, ucall>>

Next ==
    \/ Enter
    \/ Discover
    \/ UpsertSession
    \/ DriversStage
    \/ LapsStage
    \/ PositionsStage
    \/ Summary
    \/ Exit

Spec == Init /\ [][Next]_vars

\* ------------------------------------------------- direct calls
\* The ingesters and bulk_insert called directly, as a test would call them:
\* the upstream content for one entity is drawn once, and the same ingester or
\* the writer is called on it up to MaxCalls times against the same store.
IngesterEntities == {"drivers", "laps", "positions", "intervals"}

\* the session records under test: candidates dated in the order of their keys
UnitSessionLists ==
    {b \in SessionLists(MaxSessions) : \A i \in 1..Len(b) : b[i]["date_start"] = i}

\* the ingesters whose validation messages are rate-limited
RateLimited == {"laps", "intervals", "car_data"}

\* a response of malformed records only, one more than the limit of verbose
\* messages
MalformedRun(entity) == [i \in 1..(VerboseLimit + 1) |-> BadItem(entity, 1, i)]

\* a response whose second record lacks the field, between two complete ones
LackingField(entity, f) ==
    LET g == GoodItem(entity, 1, 2)
    IN <<GoodItem(entity, 1, 1), [h \in DOMAIN g \ {f} |-> g[h]], GoodItem(entity, 1, 3)>>

UnitInit ==
    /\ pc = "unit"
    /\ store = [c \in Collections |-> <<>>]
    /\ nextId = 1
    /\ sessionsUnique = TRUE
    /\ dbHandle \in BOOLEAN
    /\ client = (IF dbHandle THEN "open" ELSE "none")
    /\ dbUp = dbHandle
    /\ http = "open"
    /\ response = NoResponse
    /\ latest_session = <<>>
    /\ counts = NoCounts
    /\ events = <<>>
    /\ summary = <<>>
    /\ exit_code = -1
    /\ exc = "none"
    /\ faults = 0
    /\ upstream \in
         UNION {{[entity |-> e, body |-> b] : b \in Payloads(e, 1, MaxLen)}
                : e \in IngesterEntities \cup {"car_data"}}
         \cup {[entity |-> e, body |-> MalformedRun(e)] : e \in RateLimited}
         \cup UNION {{[entity |-> e, body |-> LackingField(e, f)] : f \in Required(e)}
                     : e \in IngesterEntities \cup {"car_data"}}
         \cup {[entity |-> "sessions", body |-> b] : b \in UnitSessionLists}
    /\ ucall = NoCall

\* the stored document with the fields of doc, if there is one
StoredCopies(collection_name, doc) ==
    {i \in 1..Len(store[collection_name]) : StripId(store[collection_name][i]) = doc}

\* the validated records of the upstream content, each one new or, for the
\* indices in again, the stored document it became in an earlier call
UnitDocuments(again) ==
    LET fresh == ValidDumps(upstream.entity, upstream.body)
    IN [k \in 1..Len(fresh) |->
           IF k \in again
           THEN store[upstream.entity][CHOOSE i \in StoredCopies(upstream.entity, fresh[k]) :
                                          \A j \in StoredCopies(upstream.entity, fresh[k]) :
                                              i <= j]
           ELSE fresh[k]]

\* one direct call of the ingester of the entity under test
UnitCall(entity, ingest(_, _, _, _)) ==
    /\ pc = "unit"
    /\ ucall.n < MaxCalls
    /\ upstream.entity = entity
    /\ \E status \in Statuses, outs \in Outcomes(MaxWrites(MaxLen)) :
        LET resp == Response(status, upstream.body)
            r == ingest([Thread EXCEPT !.events = <<>>], 1, resp, outs)
        IN /\ faults + StatusFault(status) + Errors(outs) <= MaxFaults
           /\ Consumed(r.s, outs)
           /\ faults' = faults + StatusFault(status) + Errors(outs)
           /\ response' = resp
           /\ store' = r.s.store
           /\ nextId' = r.s.nextId
           /\ events' = r.s.events
           /\ ucall' = [op |-> "ingest", n |-> ucall.n + 1,
                        ops |-> Append(ucall.ops, "ingest"),
                        collection |-> upstream.entity,
                        documents |-> <<>>, upsert_key |-> NoKey, outcome |-> "ok",
                        ret |-> r.ret, raised |-> r.s.raised, duplicates |-> 0,
                        before |-> store, log |-> r.s.log]
    /\ UNCHANGED <<pc, sessionsUnique, dbHandle, client, dbUp, http, latest_session, counts,
                   summary, exit_code, exc, upstream>>

UnitIngestDrivers == UnitCall("drivers", IngestDrivers)

UnitIngestLaps == UnitCall("laps", IngestLaps)

UnitIngestPositions == UnitCall("positions", IngestPositions)

UnitIngestIntervals == UnitCall("intervals", IngestIntervals)

\* one direct call of a batch processor on the telemetry under test
UnitBatchCall(process(_, _, _)) ==
    /\ pc = "unit"
    /\ ucall.n < MaxCalls
    /\ upstream.entity = "car_data"
    /\ \E outs \in Outcomes(MaxWrites(MaxLen)) :
        LET r == process([Thread EXCEPT !.events = <<>>], upstream.body, outs)
        IN /\ faults + Errors(outs) <= MaxFaults
           /\ Consumed(r.s, outs)
           /\ faults' = faults + Errors(outs)
           /\ store' = r.s.store
           /\ nextId' = r.s.nextId
           /\ events' = r.s.events
           /\ ucall' = [op |-> "process_batch", n |-> ucall.n + 1,
                        ops |-> Append(ucall.ops, "process_batch"),
                        collection |-> "car_data",
                        documents |-> <<>>, upsert_key |-> NoKey, outcome |-> "ok",
                        ret |-> r.ret, raised |-> r.s.raised, duplicates |-> 0,
                        before |-> store, log |-> r.s.log]
    /\ UNCHANGED <<pc, sessionsUnique, dbHandle, client, dbUp, http, response, latest_session,
                   counts, summary, exit_code, exc, upstream>>

UnitProcessCarDataBatch == UnitBatchCall(ProcessCarDataBatch)

\* the upsert keys a direct call is given: none, the key every record has, and
\* for session records a key they do not have
UnitUpsertKeys ==
    {NoKey, "session_key"}
        \cup (IF upstream.entity = "sessions" THEN {"driver_number"} ELSE {})

\* one direct call of bulk_insert on the records under test
UnitBulkInsert ==
    /\ pc = "unit"
    /\ ucall.n < MaxCalls
    /\ \E again \in SUBSET (1..Len(ValidDumps(upstream.entity, upstream.body))),
          upsert_key \in UnitUpsertKeys,
          outcome \in {"ok", "error"} :
        /\ \A k \in again :
               StoredCopies(upstream.entity,
                            ValidDumps(upstream.entity, upstream.body)[k]) # {}
        /\ LET documents == UnitDocuments(again)
               r == BulkInsert(Thread, upstream.entity, documents, upsert_key, outcome)
           IN /\ outcome = "error" => r.io /\ faults < MaxFaults
              /\ faults' = faults + (IF outcome = "error" THEN 1 ELSE 0)
              /\ store' = r.store
              /\ nextId' = r.nextId
              /\ events' = <<WriteEvent(upstream.entity, documents, upsert_key, r.ret)>>
              /\ ucall' = [op |-> "bulk_insert", n |-> ucall.n + 1,
                           ops |-> Append(ucall.ops, "bulk_insert"),
                           collection |-> upstream.entity, documents |-> documents,
                           upsert_key |-> upsert_key, outcome |-> outcome,
                           ret |-> r.ret, raised |-> r.raised,
                           duplicates |-> r.duplicates, before |-> store,
                           log |-> <<>>, io |-> r.io, nextId |-> nextId]
    /\ UNCHANGED <<pc, sessionsUnique, dbHandle, client, dbUp, http, response, latest_session,
                   counts, summary, exit_code, exc, upstream>>

UnitNext ==
    \/ UnitIngestDrivers
    \/ UnitIngestLaps
    \/ UnitIngestPositions
    \/ UnitIngestIntervals
    \/ UnitProcessCarDataBatch
    \/ UnitBulkInsert

UnitSpec == UnitInit /\ [][UnitNext]_vars

\* the run and the direct calls together
FullInit == Init \/ UnitInit

FullNext == Next \/ UnitNext

FullSpec == FullInit /\ [][FullNext]_vars

\* ------------------------------------------------- the car data ingester alone
\* ingest_car_data called directly, once, on a session whose driver list and
\* telemetry the upstream holds.
\* the speeds under test: the ends of the four ranges
Speeds == {0, 1, 149, 150, 349, 350}

\* the i-th telemetry record, of a driver: with a speed, with speed null, or
\* malformed (no date)
TelemetryItems(i) ==
    UNION {{[session_key |-> 1, driver_number |-> d, date |-> i, speed |-> v]
              : v \in Speeds}
           \cup {[session_key |-> 1, driver_number |-> d, date |-> i],
                 [session_key |-> 1, driver_number |-> d, speed |-> 0]}
           : d \in 1..MaxDrivers}

Telemetry ==
    UNION {{t \in [1..k -> UNION {TelemetryItems(i) : i \in 1..k}] :
               \A i \in 1..k : t[i] \in TelemetryItems(i)} : k \in 0..MaxTelemetry}

\* the range fetches one call can make
MaxFetches == MaxDrivers * Len(SpeedFilters)

\* the statuses of the range fetches: all 200, or one of them failing
FetchStatuses ==
    {<<>>} \cup {[i \in 1..k |-> IF i = k THEN bad ELSE "200"]
                   : k \in 1..MaxFetches, bad \in Statuses \ {"200"}}

CarInit ==
    /\ pc = "car"
    /\ store = [c \in Collections |-> <<>>]
    /\ nextId = 1
    /\ sessionsUnique = TRUE
    /\ dbHandle = TRUE
    /\ client = "open"
    /\ dbUp = TRUE
    /\ http = "open"
    /\ response = NoResponse
    /\ latest_session = <<>>
    /\ counts = NoCounts
    /\ events = <<>>
    /\ summary = <<>>
    /\ exit_code = -1
    /\ exc = "none"
    /\ faults = 0
    /\ upstream \in {[entity |-> "car_data", drivers |-> ds, body |-> t]
                       : ds \in Payloads("drivers", 1, MaxDrivers), t \in Telemetry}
    /\ ucall = NoCall

\* await ingestion.ingest_car_data(session_key)
CarCallOf(ingest(_, _, _, _, _)) ==
    /\ pc = "car"
    /\ ucall.n = 0
    /\ \E status \in Statuses, statuses \in FetchStatuses,
          outs \in Outcomes(MaxTelemetry) :
        LET resp == Response(status, upstream.drivers)
            car == [telemetry |-> upstream.body, statuses |-> statuses]
            r == ingest(Thread, 1, resp, car, outs)
            nfetch == Cardinality({i \in 1..Len(r.s.events) :
                                     r.s.events[i].collection = "car_data"
                                     /\ r.s.events[i].kind = "fetch"})
            failed == StatusFault(status) + (IF statuses = <<>> THEN 0 ELSE 1)
                        + Errors(outs)
        IN /\ failed <= MaxFaults
           /\ Len(statuses) <= nfetch
           /\ Consumed(r.s, outs)
           /\ faults' = faults + failed
           /\ response' = resp
           /\ store' = r.s.store
           /\ nextId' = r.s.nextId
           /\ events' = r.s.events
           /\ ucall' = [op |-> "car_data", n |-> 1, ops |-> <<"car_data">>,
                        collection |-> "car_data", ret |-> r.ret,
                        raised |-> r.s.raised, log |-> r.s.log, before |-> store]
    /\ UNCHANGED <<pc, sessionsUnique, dbHandle, client, dbUp, http, latest_session,
                   counts, summary, exit_code, exc, upstream>>

CarCall == CarCallOf(IngestCarDataByDrivers)

CarNext == CarCall

CarSpec == CarInit /\ [][CarNext]_vars

\* ------------------------------------------------- the Interval model alone
\* Interval(**item).model_dump() on one raw record whose gap fields hold values
\* of the declared type as JSON delivers them: null, numbers and strings.
GapStrings == {[tag |-> "str", v |-> str] : str \in SeqsUpTo(Chars, MaxStr)}

GapNumbers == {[tag |-> "int", v |-> 1], [tag |-> "float", v |-> 15 * (Scale \div 10)]}

GapValues == {Null} \cup GapNumbers \cup GapStrings

\* the values the other gap field of the record takes
GapSamples ==
    {Null, [tag |-> "int", v |-> 1], [tag |-> "str", v |-> <<"+", "1", "L">>],
     [tag |-> "str", v |-> <<"1", ".", "5">>]}

\* an otherwise valid interval record with the two gap values
IntervalItem(gap_to_leader, interval) ==
    [session_key |-> 1, driver_number |-> 1, date |-> 1,
     gap_to_leader |-> gap_to_leader, interval |-> interval]

GapInit ==
    /\ pc = "model"
    /\ store = [c \in Collections |-> <<>>]
    /\ nextId = 1
    /\ sessionsUnique = TRUE
    /\ dbHandle = FALSE
    /\ client = "none"
    /\ dbUp = FALSE
    /\ http = "none"
    /\ response = NoResponse
    /\ latest_session = <<>>
    /\ counts = NoCounts
    /\ events = <<>>
    /\ summary = <<>>
    /\ exit_code = -1
    /\ exc = "none"
    /\ faults = 0
    /\ upstream \in
         {[entity |-> "intervals", body |-> <<IntervalItem(v, w)>>]
            : v \in GapValues, w \in GapSamples}
         \cup {[entity |-> "intervals", body |-> <<IntervalItem(w, v)>>]
                  : v \in GapValues, w \in GapSamples}
    /\ ucall = NoCall

\* Interval(**item), then model_dump() when it validated
DecodeInterval ==
    /\ pc = "model"
    /\ ucall.n = 0
    /\ LET item == upstream.body[1]
           valid == IntervalValidates(item)
       IN ucall' = [op |-> "interval", n |-> 1, ops |-> <<"interval">>,
                    valid |-> valid,
                    dump |-> IF valid THEN IntervalDump(item) ELSE <<>>]
    /\ UNCHANGED <<pc, store, nextId, sessionsUnique, dbHandle, client, dbUp, http,
                   response, latest_session, counts, events, summary, exit_code, exc,
                   faults, upstream>>

GapNext == DecodeInterval

GapSpec == GapInit /\ [][GapNext]_vars

\* ------------------------------------------------- bulk_insert by key alone
\* the k-th dictionary a caller built, with or without a driver_number
KeyedDoc(k, keyed) ==
    IF keyed THEN [session_key |-> 1, driver_number |-> k]
    ELSE [session_key |-> 1]

\* the lists of at most n dictionaries, each with or without a driver_number
KeyBatches(n) ==
    UNION {{[k \in 1..m |-> KeyedDoc(k, keyed[k])] : keyed \in [1..m -> BOOLEAN]}
           : m \in 0..n}

KeyInit ==
    /\ pc = "key"
    /\ store = [c \in Collections |-> <<>>]
    /\ nextId = 1
    /\ sessionsUnique = TRUE
    /\ dbHandle \in BOOLEAN
    /\ client = (IF dbHandle THEN "open" ELSE "none")
    /\ dbUp = dbHandle
    /\ http = "none"
    /\ response = NoResponse
    /\ latest_session = <<>>
    /\ counts = NoCounts
    /\ events = <<>>
    /\ summary = <<>>
    /\ exit_code = -1
    /\ exc = "none"
    /\ faults = 0
    /\ upstream \in {[entity |-> "drivers", body |-> b] : b \in KeyBatches(MaxLen)}
    /\ ucall = NoCall

\* one direct call bulk_insert("drivers", documents, upsert_key) on the list
KeyBulkInsert ==
    /\ pc = "key"
    /\ ucall.n < MaxCalls
    /\ \E upsert_key \in {"session_key", "driver_number"},
          outcome \in {"ok", "error"} :
        LET documents == upstream.body
            r == BulkInsert(Thread, "drivers", documents, upsert_key, outcome)
        IN /\ outcome = "error" => r.io /\ faults < MaxFaults
           /\ faults' = faults + (IF outcome = "error" THEN 1 ELSE 0)
           /\ store' = r.store
           /\ nextId' = r.nextId
           /\ events' = <<WriteEvent("drivers", documents, upsert_key, r.ret)>>
           /\ ucall' = [op |-> "bulk_insert", n |-> ucall.n + 1,
                        ops |-> Append(ucall.ops, "bulk_insert"),
                        collection |-> "drivers", documents |-> documents,
                        upsert_key |-> upsert_key, outcome |-> outcome,
                        ret |-> r.ret, raised |-> r.raised,
                        duplicates |-> r.duplicates, before |-> store,
                        log |-> <<>>, io |-> r.io, nextId |-> nextId]
    /\ UNCHANGED <<pc, sessionsUnique, dbHandle, client, dbUp, http, response, latest_session,
                   counts, summary, exit_code, exc, upstream>>

KeyNext == KeyBulkInsert

KeySpec == KeyInit /\ [][KeyNext]_vars

\* ------------------------------------------------- properties
IsWrite(e) == e.kind = "write"

IsFetch(e) == e.kind = "fetch"

\* the writer calls among the events, in order
WriterCalls == SelectSeq(events, IsWrite)

\* the document lists handed to the writer, in order
WrittenBatches == [i \in 1..Len(WriterCalls) |-> WriterCalls[i].documents]

NoTransportError == \A i \in 1..Len(events) : IsFetch(events[i]) => events[i].status # "transport"

RECURSIVE Chunks(_, _)
\* seq cut into consecutive pieces of b elements, the last one shorter
Chunks(seq, b) ==
    IF seq = <<>> THEN <<>>
    ELSE <<SubSeq(seq, 1, Min(b, Len(seq)))>> \o Chunks(SubSeq(seq, Min(b, Len(seq)) + 1, Len(seq)), b)

\* C1: when discovery succeeded and the session record validated (and no fetch
\* raised), the finished run exits 0 after a summary holding the per-entity
\* counts and the live per-collection document counts.
C1_RunEndsSuccessfully ==
    (/\ pc = "done"
     /\ latest_session # <<>>
     /\ Validates("sessions", latest_session)
     /\ NoTransportError)
    => /\ exit_code = 0
       /\ summary = <<counts, CollectionStats>>

\* the named key is missing from a document of the batch
KeyMissing(documents, upsert_key) ==
    /\ upsert_key # NoKey
    /\ \E k \in 1..Len(documents) : upsert_key \notin DOMAIN documents[k]

\* C2: a direct bulk_insert call never raises and returns a count between 0 and
\* the batch size, 0 when it failed with another error than a duplicate key
\* (storage error, no database handle, key missing; the store is then
\* unchanged); an ingester whose fetch answered 200 never raises either,
\* whatever its writer calls met.
C2_BulkInsertNeverRaises ==
    /\ ucall.op = "bulk_insert" =>
        /\ ~ucall.raised
        /\ ucall.ret \in 0..Len(ucall.documents)
        /\ (\/ ucall.outcome = "error"
            \/ ~dbHandle
            \/ KeyMissing(ucall.documents, ucall.upsert_key)) =>
               ucall.ret = 0 /\ store = ucall.before
    /\ (ucall.op = "ingest" /\ response.status = "200") =>
        /\ ~ucall.raised
        /\ \A i \in 1..Len(WriterCalls) : WriterCalls[i].ret \in 0..Len(WriterCalls[i].documents)

\* C2 witness: a non-empty batch met a storage error and the call returned 0
C2_Witness ==
    /\ ucall.op = "bulk_insert"
    /\ ucall.outcome = "error"
    /\ ucall.documents # <<>>
    /\ ucall.ret = 0
    /\ ~ucall.raised

\* C3: an ingester that batches (laps, positions, intervals) fed N valid records
\* makes exactly the writer calls of the N records cut into pieces of
\* BATCH_SIZE, in fetch order: ceil(N / BATCH_SIZE) calls, the remainder once.
C3_WriterCallsAreChunks ==
    (/\ ucall.op = "ingest"
     /\ ucall.collection \in {"laps", "positions", "intervals"}
     /\ response.status = "200")
    => WrittenBatches = Chunks(ValidDumps(ucall.collection, upstream.body), BATCH_SIZE)

\* the document breaks a unique index of the collection as it was before the call
Collides(old, collection_name, doc) ==
    \/ HasId(doc) /\ \E i \in 1..Len(old) : old[i]["_id"] = doc["_id"]
    \/ /\ collection_name = "sessions"
       /\ sessionsUnique
       /\ \E i \in 1..Len(old) : old[i]["session_key"] = doc["session_key"]

\* C4: a plain insert of N documents of which K collide with stored unique keys
\* returns N - K, stores exactly the N - K others after what was stored,
\* reports K duplicates and does not raise.
C4_PlainInsertSkipsDuplicates ==
    (/\ ucall.op = "bulk_insert"
     /\ ucall.upsert_key = NoKey
     /\ ucall.outcome = "ok"
     /\ dbHandle)
    => LET c == ucall.collection
           docs == ucall.documents
           old == ucall.before[c]
           dup == {k \in 1..Len(docs) : Collides(old, c, docs[k])}
           K == Cardinality(dup)
       IN /\ ~ucall.raised
          /\ ucall.ret = Len(docs) - K
          /\ ucall.duplicates = K
          /\ StripIds(store[c])
               = StripIds(old) \o SelectIdx(StripIds(docs), (1..Len(docs)) \ dup, 1)
          /\ \A o \in Collections \ {c} : store[o] = ucall.before[o]

\* C4 witness: a batch of which some, not all, documents were duplicates
C4_Witness ==
    /\ ucall.op = "bulk_insert"
    /\ ucall.upsert_key = NoKey
    /\ ucall.outcome = "ok"
    /\ ucall.duplicates >= 1
    /\ ucall.ret >= 1
    /\ Len(store[ucall.collection]) = Len(ucall.before[ucall.collection]) + ucall.ret

\* C5: after an upsert by session_key of session records, the sessions
\* collection holds exactly one document per written session_key, with the
\* record's field values, however often the record was written before.
C5_UpsertIdempotent ==
    (/\ ucall.op = "bulk_insert"
     /\ ucall.collection = "sessions"
     /\ ucall.upsert_key = "session_key"
     /\ ucall.outcome = "ok"
     /\ dbHandle)
    => \A k \in 1..Len(ucall.documents) :
           LET doc == StripId(ucall.documents[k])
               m == {i \in 1..Len(store["sessions"]) :
                        store["sessions"][i]["session_key"] = doc["session_key"]}
           IN /\ Cardinality(m) = 1
              /\ \A i \in m : StripId(store["sessions"][i]) = doc

\* C5 witness: the second write of a session record that is already stored
C5_Witness ==
    /\ ucall.op = "bulk_insert"
    /\ ucall.collection = "sessions"
    /\ ucall.upsert_key = "session_key"
    /\ ucall.outcome = "ok"
    /\ ucall.ops = <<"bulk_insert", "bulk_insert">>
    /\ ucall.documents # <<>>
    /\ ucall.before["sessions"] # <<>>
    /\ Len(store["sessions"]) = Len(ucall.documents)
    /\ ucall.ret = 0

\* no two documents of the collection share their identity tuple
IdentityUnique(collection_name) ==
    \A i, j \in 1..Len(store[collection_name]) :
        i # j => Identity(collection_name, store[collection_name][i])
                   # Identity(collection_name, store[collection_name][j])

\* C6: after the same ingester ran twice on the same upstream content against
\* the same store, the time-series collection holds at most one document per
\* identity tuple.
C6_ReingestKeepsIdentityUnique ==
    (/\ ucall.ops = <<"ingest", "ingest">>
     /\ ucall.collection \in {"laps", "positions", "intervals"})
    => IdentityUnique(ucall.collection)

\* C7: a fetch answered with another status than 200 makes the ingester return
\* 0 without raising and without a writer call (the store is unchanged), and
\* in a run the orchestrator records the 0 and goes on to the next stage.
C7_FailedFetchReturnsZero ==
    /\ (pc = "unit" /\ ucall.op = "ingest" /\ response.status = "500") =>
        /\ ucall.ret = 0
        /\ ~ucall.raised
        /\ WriterCalls = <<>>
        /\ store = ucall.before
    /\ pc # "unit" =>
        \A i \in 1..Len(events) :
            (/\ IsFetch(events[i])
             /\ events[i].collection \in {"drivers", "laps", "positions"}
             /\ events[i].status = "500")
            => LET c == events[i].collection
               IN /\ counts[c] = 0
                  /\ \A j \in 1..Len(events) : IsWrite(events[j]) => events[j].collection # c
                  /\ store[c] = <<>>
                  /\ pc # c
                  /\ i < Len(events) =>
                        IsFetch(events[i + 1]) /\ events[i + 1].collection = StageAfter(c)
                  /\ c = "positions" => pc = "summary" \/ summary # <<>>

\* C7 witness: in a run the laps fetch failed and the positions fetch followed
C7_Witness ==
    /\ pc = "summary"
    /\ counts["laps"] = 0
    /\ \E i \in 1..(Len(events) - 1) :
        /\ IsFetch(events[i])
        /\ events[i].collection = "laps"
        /\ events[i].status = "500"
        /\ events[i + 1].collection = "positions"

\* C8: when discovery answers another status than 200 (or raises) or returns no
\* candidate, the run aborts with the discovery error: no writer call, no
\* further fetch, nothing stored, no summary, exit status 1.
C8_DiscoveryFailureAborts ==
    (/\ Len(events) >= 1
     /\ events[1].status # "200" \/ events[1].n = 0)
    => /\ Len(events) = 1
       /\ exc = "discovery"
       /\ pc \in {"aexit", "done"}
       /\ store = [c \in Collections |-> <<>>]
       /\ summary = <<>>
       /\ pc = "done" => exit_code = 1

\* C8 witness: discovery answered 200 with an empty list and the run ended
C8_Witness ==
    /\ pc = "done"
    /\ exc = "discovery"
    /\ events[1].status = "200"
    /\ events[1].n = 0
    /\ exit_code = 1

DistinctDates(sessions) ==
    \A i, j \in 1..Len(sessions) :
        i # j => sessions[i]["date_start"] # sessions[j]["date_start"]

\* the discovery step picks the candidate with the greatest date_start
DiscoverSelectsLatest ==
    (pc = "discover" /\ pc' = "session" /\ DistinctDates(response'.body))
    => /\ latest_session' \in Range(response'.body)
       /\ \A c \in Range(response'.body) : c["date_start"] <= latest_session'["date_start"]

\* every later fetch and every written or stored document carries the key of
\* the selected session
OnlyLatestKeyUsed ==
    latest_session # <<>> =>
        /\ \A i \in 2..Len(events) :
            /\ IsFetch(events[i]) => events[i].session_key = latest_session["session_key"]
            /\ IsWrite(events[i]) =>
                 \A k \in 1..Len(events[i].documents) :
                     events[i].documents[k]["session_key"] = latest_session["session_key"]
        /\ \A c \in Collections : \A k \in 1..Len(store[c]) :
               store[c][k]["session_key"] = latest_session["session_key"]

\* C9: of candidates with distinct date_start the one with the greatest
\* date_start is selected, and only its session_key is used in the upsert and in
\* every later fetch and write.
C9_LatestSessionSelected == [][DiscoverSelectsLatest]_vars /\ []OnlyLatestKeyUsed

\* C9 witness: the second of two candidates was the latest and was ingested
C9_Witness ==
    /\ Len(events) >= 3
    /\ events[1].n = 2
    /\ latest_session["session_key"] = 2
    /\ store["sessions"] # <<>>
    /\ events[3].session_key = 2

\* the place of an event in the fixed order of the stages
Rank(e) ==
    (CASE e.collection = "sessions"  -> 0
       [] e.collection = "drivers"   -> 2
       [] e.collection = "laps"      -> 4
       [] e.collection = "positions" -> 6
       [] OTHER                      -> 8)
    + (IF IsWrite(e) THEN 1 ELSE 0)

\* C10: the fetches and writer calls of a run come in the order discovery,
\* session upsert, drivers, laps, positions, each stage's fetch before its
\* writer calls and once only; a stage has returned its count before the next
\* one starts, and the summary comes after positions.
C10_StagesInOrder ==
    /\ \A i, j \in 1..Len(events) : i < j => Rank(events[i]) <= Rank(events[j])
    /\ \A i, j \in 1..Len(events) :
           (i < j /\ IsFetch(events[i]) /\ IsFetch(events[j]))
               => events[i].collection # events[j].collection
    /\ \A i \in 1..Len(events) :
           events[i].collection \in {"laps", "positions"}
               => counts[IF events[i].collection = "laps" THEN "drivers" ELSE "laps"] >= 0
    /\ summary # <<>> => counts["positions"] >= 0 /\ pc \in {"aexit", "done"}

\* C10 witness: a run that wrote to all four collections and reached the summary
C10_Witness ==
    /\ summary # <<>>
    /\ \A c \in {"sessions", "drivers", "laps", "positions"} :
           \E i \in 1..Len(events) : IsWrite(events[i]) /\ events[i].collection = c /\ events[i].ret > 0

RECURSIVE Flatten(_)
\* the concatenation of a sequence of sequences
Flatten(seqs) == IF seqs = <<>> THEN <<>> ELSE Head(seqs) \o Flatten(Tail(seqs))

RECURSIVE FirstOccurrences(_)
\* seq without the later repetitions of its elements
FirstOccurrences(seq) ==
    IF seq = <<>> THEN <<>>
    ELSE LET init == SubSeq(seq, 1, Len(seq) - 1)
             last == seq[Len(seq)]
         IN IF last \in Range(init) THEN FirstOccurrences(init)
            ELSE Append(FirstOccurrences(init), last)

\* the last direct call was an ingester whose fetch answered 200, or the car
\* data batch processor
IngestedBody ==
    \/ ucall.op = "ingest" /\ response.status = "200"
    \/ ucall.op = "process_batch"

\* C11: a validation failure never aborts an ingester: of a fetched sequence
\* mixing valid and invalid items, the records handed to the writer are exactly
\* the valid ones, in fetch order (those after an invalid item included), no
\* record lacking a required field is handed over, and the call does not raise.
C11_InvalidRecordsSkipped ==
    IngestedBody =>
        LET handed == Flatten(WrittenBatches)
        IN /\ ~ucall.raised
           /\ FirstOccurrences(handed) = ValidDumps(ucall.collection, upstream.body)
           /\ \A k \in 1..Len(handed) : Required(ucall.collection) \subseteq DOMAIN handed[k]

\* C11 witness: an invalid record came before a valid one, which was written
C11_Witness ==
    /\ IngestedBody
    /\ ucall.collection \in {"laps", "positions", "car_data"}
    /\ \E i, j \in 1..Len(upstream.body) :
        /\ i < j
        /\ ~Validates(ucall.collection, upstream.body[i])
        /\ Validates(ucall.collection, upstream.body[j])
        /\ ModelDump(ucall.collection, upstream.body[j]) \in Range(Flatten(WrittenBatches))
    /\ ucall.log # <<>>

\* how many entries of the log are the message
Logged(log, message) == Cardinality({i \in 1..Len(log) : log[i] = message})

\* C12: a run of the laps or intervals ingester or of the car data batch
\* processor emits at most VerboseLimit per-record validation warnings, and
\* when more records than that failed, exactly one suppression notice, after
\* which no per-record warning follows.
C12_ValidationLogRateLimited ==
    (IngestedBody /\ ucall.collection \in RateLimited) =>
        LET failures == Len(upstream.body)
                          - SuccessfulCount(ucall.collection, upstream.body)
        IN /\ Logged(ucall.log, "warning") <= VerboseLimit
           /\ failures > VerboseLimit =>
                /\ Logged(ucall.log, "notice") = 1
                /\ \A i, j \in 1..Len(ucall.log) :
                       (ucall.log[i] = "notice" /\ i < j) => ucall.log[j] # "warning"

\* C13: an entity fetch that raises a transport error is absorbed by its
\* ingester: the ingester returns 0 for the entity, no exception reaches the
\* orchestrator and the run goes on with the next entity.
C13_TransportErrorAbsorbed ==
    \A i \in 1..Len(events) :
        (/\ IsFetch(events[i])
         /\ events[i].collection \in {"drivers", "laps", "positions"}
         /\ events[i].status = "transport")
        => /\ exc # "ingester"
           /\ counts[events[i].collection] = 0
           /\ pc \in {StageAfter(events[i].collection), "aexit", "done"}
                 \/ i < Len(events)

\* C16: when the run has ended, on whatever path, neither the HTTP session nor
\* the database client it acquired is still open.
C16_HandlesReleased ==
    pc = "done" => http # "open" /\ client # "open"

\* the fetches among the events, in order
Fetches == SelectSeq(events, IsFetch)

\* C17: a call of the drivers ingester makes one fetch, keyed by the session;
\* when it answers 200 the valid driver records go to the writer in one call,
\* a plain insert with no upsert key, and the ingester returns the count that
\* call reported.
C17_DriversSinglePlainInsert ==
    (ucall.op = "ingest" /\ ucall.collection = "drivers") =>
        /\ Len(Fetches) = 1
        /\ Fetches[1].collection = "drivers"
        /\ Fetches[1].session_key = 1
        /\ response.status = "200" =>
            /\ Len(WriterCalls) = 1
            /\ WriterCalls[1].collection = "drivers"
            /\ WriterCalls[1].upsert_key = NoKey
            /\ WriterCalls[1].documents = ValidDumps("drivers", upstream.body)
            /\ ucall.ret = WriterCalls[1].ret

\* C17 witness: the writer stored none of the valid driver records it was
\* given, and the ingester returned 0
C17_Witness ==
    /\ ucall.op = "ingest"
    /\ ucall.collection = "drivers"
    /\ response.status = "200"
    /\ Len(WriterCalls) = 1
    /\ Len(WriterCalls[1].documents) >= 2
    /\ ucall.ret = 0

\* the document has a value for the session key and the identity tuple
CarriesIdentity(entity, doc) ==
    {"session_key"} \cup IdentityFields(entity) \subseteq DOMAIN doc

\* C19: every record an ingester hands to the writer, and every document it
\* stored, has a value for session_key and for each field of its entity's
\* identity tuple; the raw items lacking one of them are handed over nowhere.
C19_WrittenRecordsCarryIdentity ==
    IngestedBody =>
        LET c == ucall.collection
            handed == Flatten(WrittenBatches)
        IN /\ \A k \in 1..Len(handed) : CarriesIdentity(c, handed[k])
           /\ \A k \in 1..Len(store[c]) : CarriesIdentity(c, store[c][k])
           /\ \A i \in 1..Len(upstream.body) :
                  ~CarriesIdentity(c, upstream.body[i])
                      => \A k \in 1..Len(handed) :
                             handed[k] # ModelDump(c, upstream.body[i])

\* C19 witness: a record without session key was fetched between two complete
\* ones, and only those two were stored
C19_Witness ==
    /\ IngestedBody
    /\ Len(upstream.body) = 3
    /\ "session_key" \notin DOMAIN upstream.body[2]
    /\ "driver_number" \in DOMAIN upstream.body[2]
    /\ Len(store[ucall.collection]) >= 2
    /\ Len(FirstOccurrences(Flatten(WrittenBatches))) = 2

\* C20: bulk_insert called with an empty list returns 0 without raising and
\* without issuing a storage operation, with or without an upsert key: every
\* collection is as it was and no ObjectId was handed out.
C20_EmptyBatchNoIO ==
    (ucall.op = "bulk_insert" /\ ucall.documents = <<>>) =>
        /\ ucall.ret = 0
        /\ ~ucall.raised
        /\ ~ucall.io
        /\ store = ucall.before
        /\ nextId = ucall.nextId

\* C20 witness: an empty list was upserted by key into a store that has a
\* database handle
C20_Witness ==
    /\ ucall.op = "bulk_insert"
    /\ ucall.documents = <<>>
    /\ ucall.upsert_key = "session_key"
    /\ dbHandle
    /\ ucall.ret = 0

\* C18: decoding a gap field is total and keeps the kind of the value: null
\* stays null, a string that float() parses becomes that float (1.5 for
\* "1.5"), any other string stays the same string ("+1L"), a number becomes a
\* float of the same value, and the record validates whatever null, number or
\* string the two fields hold.
C18_GapDecodingTotal ==
    ucall.op = "interval" =>
        /\ ucall.valid
        /\ \A f \in GapFields :
            LET raw == upstream.body[1][f]
                out == ucall.dump[f]
            IN /\ raw.tag = "null" <=> out = Null
               /\ raw.tag = "int" => out = [tag |-> "float", v |-> raw.v * Scale]
               /\ raw.tag = "float" => out = raw
               /\ raw.tag = "str" =>
                    /\ out.tag \in {"float", "str"}
                    /\ out.tag = "float" <=> IsFloatLiteral(raw.v)
                    /\ out.tag = "str" => out = raw
                    /\ raw.v = <<"1", ".", "5">> => out.v = 15 * (Scale \div 10)
                    /\ raw.v = <<"+", "1", "L">> => out = raw
                    /\ raw.v = <<"+", "5">> => out.v = 5 * Scale
                    /\ raw.v = <<>> => out = raw

\* C18 witness: a record with gap_to_leader "+1L" and interval "1.5" was
\* dumped with the string kept and the number parsed
C18_Witness ==
    /\ ucall.op = "interval"
    /\ ucall.valid
    /\ upstream.body[1]["gap_to_leader"] = [tag |-> "str", v |-> <<"+", "1", "L">>]
    /\ upstream.body[1]["interval"] = [tag |-> "str", v |-> <<"1", ".", "5">>]
    /\ ucall.dump["gap_to_leader"].tag = "str"
    /\ ucall.dump["interval"].tag = "float"

IsCarFetch(e) == IsFetch(e) /\ e.collection = "car_data"

\* the range fetches among the events, in order
CarFetches == SelectSeq(events, IsCarFetch)

\* C14: when the drivers fetch and every range fetch answered 200, every
\* telemetry record of a listed driver was returned by exactly one of the
\* driver's four range fetches: the four partial results together are the
\* driver's telemetry, and none holds a record of another.
C14_SpeedFiltersPartition ==
    (/\ ucall.op = "car_data"
     /\ ~ucall.raised
     /\ \A i \in 1..Len(events) : IsFetch(events[i]) => events[i].status = "200")
    => \A d \in 1..Len(upstream.drivers) :
         "driver_number" \in DOMAIN upstream.drivers[d] =>
           \A k \in 1..Len(upstream.body) :
             upstream.body[k]["driver_number"] = upstream.drivers[d]["driver_number"] =>
               Cardinality({i \in 1..Len(CarFetches) :
                              /\ CarFetches[i].driver_number
                                    = upstream.drivers[d]["driver_number"]
                              /\ upstream.body[k] \in Range(CarFetches[i].records)}) = 1

RECURSIVE SumValidated(_)
\* the records of the fetches that validate, counted over all of them
SumValidated(fetches) ==
    IF fetches = <<>> THEN 0
    ELSE SuccessfulCount("car_data", Head(fetches).records) + SumValidated(Tail(fetches))

\* C15: when the drivers fetch answered 200 with a driver list, the car data
\* ingester makes for every driver of the list, in list order, the four range
\* fetches in the order of the filters, whatever the earlier ones answered, does
\* not raise, and returns the number of fetched records that validated.
C15_FourFetchesPerDriver ==
    (/\ ucall.op = "car_data"
     /\ response.status = "200"
     /\ upstream.drivers # <<>>)
    => /\ ~ucall.raised
       /\ Len(CarFetches) = Len(SpeedFilters) * Len(upstream.drivers)
       /\ \A d \in 1..Len(upstream.drivers) : \A f \in 1..Len(SpeedFilters) :
              LET e == CarFetches[Len(SpeedFilters) * (d - 1) + f]
              IN /\ e.filter = f
                 /\ "driver_number" \in DOMAIN upstream.drivers[d]
                 /\ e.driver_number = upstream.drivers[d]["driver_number"]
       /\ ucall.ret = SumValidated(CarFetches)

\* the fetched records that have every required field of the entity
PassedValidation(entity, data) ==
    {k \in 1..Len(data) : Required(entity) \subseteq DOMAIN data[k]}

\* C21: the count an ingester returns never exceeds the number of fetched
\* records that passed validation; the positions count in particular leaves
\* out the records that failed.
C21_CountWithinValidated ==
    (ucall.op = "ingest" /\ response.status = "200") =>
        ucall.ret <= Cardinality(PassedValidation(ucall.collection, upstream.body))

\* C22: the count the laps and the intervals ingester return depends on the
\* fetched data only: it is the number of fetched records that validate,
\* whatever the writer calls returned, and the call does not raise.
C22_CountIndependentOfWriter ==
    (/\ ucall.op = "ingest"
     /\ ucall.collection \in {"laps", "intervals"}
     /\ response.status = "200")
    => /\ ucall.ret = Cardinality(PassedValidation(ucall.collection, upstream.body))
       /\ ~ucall.raised

\* C22 witness: every writer call of a laps or intervals ingester met a storage
\* error and returned 0, nothing was stored, and the ingester returned the two
\* records that validate
C22_Witness ==
    /\ ucall.op = "ingest"
    /\ ucall.collection \in {"laps", "intervals"}
    /\ response.status = "200"
    /\ WriterCalls # <<>>
    /\ \A i \in 1..Len(WriterCalls) : WriterCalls[i].ret = 0
    /\ dbHandle
    /\ store = ucall.before
    /\ ucall.ret = 2

\* the collections of the fetches of the run, in order
FetchedCollections == [i \in 1..Len(Fetches) |-> Fetches[i].collection]

\* C23: once discovery succeeded and the session record validated, the body of
\* the run ends only after the drivers, the laps and the positions fetch, in
\* that order, whatever the connection attempt and the session upsert did, and
\* after a failed connection attempt every writer call returned 0.
C23_StorageFailureKeepsStages ==
    (/\ pc = "aexit"
     /\ latest_session # <<>>
     /\ Validates("sessions", latest_session))
    => /\ FetchedCollections = <<"sessions", "drivers", "laps", "positions">>
       /\ ~dbUp => \A i \in 1..Len(WriterCalls) : WriterCalls[i].ret = 0

\* C24: an upsert by key of a batch in which a record lacks the key returns 0
\* without raising and issues no storage operation: the collections are as
\* they were, the records of the batch that carry the key are stored nowhere
\* new, and no ObjectId was handed out.
C24_MissingKeyWritesNothing ==
    (ucall.op = "bulk_insert" /\ KeyMissing(ucall.documents, ucall.upsert_key)) =>
        /\ ucall.ret = 0
        /\ ~ucall.raised
        /\ ~ucall.io
        /\ store = ucall.before
        /\ nextId = ucall.nextId

\* C24 witness: of a batch upserted by driver_number the first record carried
\* the key and a later one did not; the store, which has a database handle,
\* holds nothing afterwards
C24_Witness ==
    /\ ucall.op = "bulk_insert"
    /\ ucall.upsert_key = "driver_number"
    /\ ucall.outcome = "ok"
    /\ dbHandle
    /\ Len(ucall.documents) >= 2
    /\ "driver_number" \in DOMAIN ucall.documents[1]
    /\ KeyMissing(ucall.documents, "driver_number")
    /\ store["drivers"] = <<>>
    /\ ucall.ret = 0
====
